---- MODULE Spec2Model ----
(***************************************************************************)
(* Structured point buffer (sensor_msgs PointCloud2 helpers) and spherical *)
(* projection calibration of include/grid_planner/clouds.h.                *)
(*                                                                         *)
(* Part 1 models the buffer helpers byte by byte: reset_fields,            *)
(* append_field, resize_cloud, copy_cloud_metadata and copy_points.        *)
(* Part 2 models SphericalProjection::fit_fast and ::fit_robust over a     *)
(* cloud whose "x","y","z" floats are abstracted to (finite?, azimuth,     *)
(* elevation) per point, with float arithmetic taken as exact rational     *)
(* arithmetic plus NaN and the infinities.                                 *)
(*                                                                         *)
(* All integers of the model stay far below 2^31 within the bounds, so     *)
(* the uint32 wrap-around of point_step, row_step and the data size is     *)
(* never reached.                                                          *)
(***************************************************************************)
EXTENDS Integers, Sequences, FiniteSets, TLC

(***************************************************************************)
(* Bounds of the model.                                                    *)
(***************************************************************************)
\* append_field is enabled while the cloud has fewer fields than this.
MaxFields == 2
\* the same, where the schema alone is built (SpecSchema).
MaxSchemaFields == 2
\* count argument of append_field ranges over 0..MaxCount.
MaxCount == 2
\* height and width arguments of resize_cloud range over 0..MaxDim.
MaxDim == 2
\* a producer fills a source cloud with zeros or with one of MaxSeed byte ramps.
MaxSeed == 1
\* a source cloud of copy_points holds at most this many points.
MaxSrcPoints == 2
\* an index container passed to copy_points has at most this many entries.
MaxIndices == 2

VARIABLES
    cloud,      \* the PointCloud2 the helpers mutate (reset/append/resize; output of the copies)
    op,         \* name of the last helper that ran on cloud ("none" after construction)
    input,      \* the source cloud the caller holds: input argument of the copies
    indices,    \* the index container the caller holds: indices argument of copy_points
    oob,        \* TRUE iff the last copy_points read bytes outside input.data
    error,      \* exception raised by the last helper ("none": no helper throws)
    crashed,    \* TRUE once an out-of-bounds read has faulted the process
    scan,       \* cloud argument of the fits, as a grid of points
    model,      \* the six SphericalProjection members
    fit         \* last fit call: its name, return value and locals at return

vars == <<cloud, op, input, indices, oob, error, crashed, scan, model, fit>>

\* uint8_t values; the two bytes an out-of-bounds read is given here.
ByteMod == 256
JunkBytes == {0, 255}

Names == {"x", "y"}

\* sensor_msgs::msg::PointField datatypes.
Datatypes == {"int8", "uint8", "int16", "uint16", "int32", "uint32", "float32", "float64"}

\* PointFieldTraits<C>::value_size(): bytes of one element of the datatype.
ElementSize(dt) ==
    CASE dt \in {"int8", "uint8"} -> 1
      [] dt \in {"int16", "uint16"} -> 2
      [] dt \in {"int32", "uint32", "float32"} -> 4
      [] dt = "float64" -> 8

\* A default-constructed sensor_msgs::msg::PointCloud2. header, is_bigendian and
\* is_dense are copied verbatim by the copies and read by nothing modelled here.
EmptyCloud ==
    [fields |-> <<>>, point_step |-> 0, row_step |-> 0,
     height |-> 0, width |-> 0, data |-> <<>>]

\* num_points(cloud)
num_points(c) == c.height * c.width

\* reset_fields(cloud)
reset_fields(c) == [c EXCEPT !.fields = <<>>, !.point_step = 0]

\* A plausible slip of append_field: point_step advanced by count only.
append_field_count_only(name, dt, count, c) ==
    [c EXCEPT !.fields = Append(@, [name |-> name, offset |-> c.point_step,
                                    datatype |-> dt, count |-> count]),
              !.point_step = @ + count]

\* append_field<T>(name, count, cloud); dt is PointFieldTraits<T>::datatype().
append_field(name, dt, count, c) ==
    [c EXCEPT !.fields = Append(@, [name |-> name, offset |-> c.point_step,
                                    datatype |-> dt, count |-> count]),
              !.point_step = @ + count * ElementSize(dt)]

\* std::vector<uint8_t>::resize(n, v): the first min(n, size) bytes are kept,
\* bytes added beyond the old size are v.
vector_resize(d, n, v) == [i \in 1..n |-> IF i <= Len(d) THEN d[i] ELSE v]

\* A plausible slip of resize_cloud: row_step set to width, point_step forgotten.
resize_cloud_row_is_width(c, height, width) ==
    [c EXCEPT !.height = height, !.width = width, !.row_step = width,
              !.data = vector_resize(@, height * width, 0)]

\* resize_cloud(cloud, height, width)
resize_cloud(c, height, width) ==
    LET row_step == width * c.point_step
    IN  [c EXCEPT !.height = height, !.width = width, !.row_step = row_step,
                  !.data = vector_resize(@, height * row_step, 0)]

\* copy_cloud_metadata(input, output)
copy_cloud_metadata(in, out) ==
    [out EXCEPT !.fields = in.fields, !.point_step = in.point_step]

\* Whether std::copy for index k reads only bytes of in.data.
InBounds(in, k) == (k + 1) * in.point_step <= Len(in.data)

\* The point_step bytes std::copy reads for index k: bytes of in.data where the
\* range lies inside it, otherwise whatever the memory behind it holds (junk).
ReadRecord(in, k, junk) ==
    [j \in 1..in.point_step |->
        IF k * in.point_step + j <= Len(in.data)
        THEN in.data[k * in.point_step + j] ELSE junk]

RECURSIVE Concat(_, _)
\* The records f[1], ..., f[n] one after the other.
Concat(f, n) == IF n = 0 THEN <<>> ELSE Concat(f, n - 1) \o f[n]

\* A plausible slip of copy_points: records copied in the source's order
\* (record i for position i) instead of the order of indices.
copy_points_source_order(in, idx, out, junk, upto) ==
    LET n    == Len(idx)
        size == n * in.point_step
        old  == vector_resize(out.data, size, 0)
        rec  == [i \in 1..n |-> ReadRecord(in, i - 1, junk)]
        new  == Concat(rec, n)
    IN  [out EXCEPT !.height = 1, !.width = n, !.fields = in.fields,
                    !.point_step = in.point_step,
                    !.row_step = n * in.point_step,
                    !.data = new]

\* copy_points(input, indices, output). The loop has copied the first `upto`
\* records (all of them, Len(idx), when it runs to its end); the bytes of the
\* other records are those data.resize left there.
copy_points(in, idx, out, junk, upto) ==
    LET n    == Len(idx)
        size == n * in.point_step
        old  == vector_resize(out.data, size, 0)
        rec  == [i \in 1..upto |-> ReadRecord(in, idx[i], junk)]
        new  == Concat(rec, upto)
    IN  [out EXCEPT !.height = 1, !.width = n, !.fields = in.fields,
                    !.point_step = in.point_step,
                    !.row_step = n * in.point_step,
                    !.data = new \o SubSeq(old, Len(new) + 1, size)]

(***************************************************************************)
(* Source clouds of the copies: clouds built by the helpers themselves     *)
(* (fields appended from a reset cloud, then resized) and then filled by a *)
(* producer with arbitrary bytes.                                          *)
(***************************************************************************)
SrcSchemas ==
    {reset_fields(EmptyCloud),
     append_field("x", "uint8", 1, reset_fields(EmptyCloud)),
     append_field("y", "uint8", 1, append_field("x", "uint8", 1, reset_fields(EmptyCloud)))}

SrcExtents ==
    {e \in (1..MaxSrcPoints) \X (0..MaxSrcPoints) :
        /\ e[1] * e[2] <= MaxSrcPoints
        /\ e[2] = 0 => e[1] = 1}

\* What a producer writes into n data bytes: nothing (the zeros resize_cloud
\* left), or a ramp seed, seed + 1, ... in which every byte differs.
FillPatterns(n) ==
    {[j \in 1..n |-> 0]} \cup
    {[j \in 1..n |-> (seed + j - 1) % ByteMod] : seed \in 1..MaxSeed}

SourceClouds ==
    UNION { UNION { LET c == resize_cloud(s, e[1], e[2])
                    IN  {[c EXCEPT !.data = d] : d \in FillPatterns(Len(c.data))}
                    : e \in SrcExtents }
            : s \in SrcSchemas }

\* Index containers for a source: every index below the point count, and the
\* first index past it.
IndexSeqs(in) ==
    UNION {[1..n -> 0..num_points(in)] : n \in 0..MaxIndices}

\* Position of the first index whose read is out of bounds (0 if none).
FirstOob(in, idx) ==
    IF \A i \in 1..Len(idx) : InBounds(in, idx[i]) THEN 0
    ELSE CHOOSE i \in 1..Len(idx) :
            /\ ~InBounds(in, idx[i])
            /\ \A j \in 1..(i - 1) : InBounds(in, idx[j])

(***************************************************************************)
(* State of the fits while the buffer helpers run (part 2 below).          *)
(***************************************************************************)
NoScan == [height |-> 0, width |-> 0, pts |-> <<>>, truth |-> <<0, 0, 0, 0>>]

NoModel ==
    [azimuth_start |-> <<0, 1>>, azimuth_step |-> <<0, 1>>,
     elevation_start |-> <<0, 1>>, elevation_step |-> <<0, 1>>,
     height |-> 0, width |-> 0]

NoFit ==
    [op |-> "none", ret |-> FALSE,
     i_r0 |-> 0, i_r1 |-> 0, i_c0 |-> 0, i_c1 |-> 0, i |-> 0,
     n_az |-> 0, n_el |-> 0, bad_az |-> 0, bad_el |-> 0,
     nz_az |-> FALSE, nz_el |-> FALSE]

FitIdle ==
    /\ scan = NoScan
    /\ model = NoModel
    /\ fit = NoFit

(***************************************************************************)
(* Part 1: the buffer helpers as actions on cloud.                         *)
(***************************************************************************)
ResetFields ==
    /\ ~crashed
    /\ cloud' = reset_fields(cloud)
    /\ op' = "reset_fields"
    /\ UNCHANGED <<input, indices, oob, error, crashed, scan, model, fit>>

\* append_field<T>(name, count, cloud) for the field names, datatypes and counts given.
AppendFieldOf(max, names, datatypes, counts) ==
    /\ ~crashed
    /\ Len(cloud.fields) < max
    /\ \E name \in names, dt \in datatypes, count \in counts :
          cloud' = append_field(name, dt, count, cloud)
    /\ op' = "append_field"
    /\ UNCHANGED <<input, indices, oob, error, crashed, scan, model, fit>>

\* Fields of one-byte and of two-byte elements.
AppendField == AppendFieldOf(MaxFields, {"x"}, {"uint8", "int16"}, {1})

\* Any field: every datatype, every count up to MaxCount (0 included).
AppendAnyField == AppendFieldOf(MaxSchemaFields, Names, Datatypes, 0..MaxCount)

ResizeCloud ==
    /\ ~crashed
    /\ \E height \in 0..MaxDim, width \in 0..MaxDim :
          cloud' = resize_cloud(cloud, height, width)
    /\ op' = "resize_cloud"
    /\ UNCHANGED <<input, indices, oob, error, crashed, scan, model, fit>>

CopyCloudMetadata ==
    /\ ~crashed
    /\ cloud' = copy_cloud_metadata(input, cloud)
    /\ op' = "copy_cloud_metadata"
    /\ UNCHANGED <<input, indices, oob, error, crashed, scan, model, fit>>

\* copy_points running to its end. No index is checked against the point
\* count: a record outside input.data is read from whatever lies there.
CopyPoints ==
    /\ ~crashed
    /\ \E junk \in JunkBytes :
          /\ FirstOob(input, indices) = 0 => junk = 0
          /\ cloud' = copy_points(input, indices, cloud, junk, Len(indices))
    /\ oob' = (FirstOob(input, indices) # 0)
    /\ op' = "copy_points"
    /\ UNCHANGED <<input, indices, error, crashed, scan, model, fit>>

\* copy_points faulting at its first out-of-bounds read: the other outcome
\* of that read. The output keeps what was written before the fault.
CopyPointsFault ==
    /\ ~crashed
    /\ FirstOob(input, indices) # 0
    /\ cloud' = copy_points(input, indices, cloud, 0, FirstOob(input, indices) - 1)
    /\ oob' = TRUE
    /\ crashed' = TRUE
    /\ op' = "copy_points"
    /\ UNCHANGED <<input, indices, error, scan, model, fit>>

\* The source clouds and index containers the helpers are run with in Spec:
\* the widest single-row sources, with no index, the indices in reverse
\* order, and the first index past the end.
Workloads ==
    {w \in SourceClouds \X UNION {IndexSeqs(in) : in \in SourceClouds} :
        /\ w[1].height = 1 /\ w[1].width = MaxSrcPoints /\ w[1].point_step > 0
        /\ \/ w[2] = <<>>
           \/ w[2] = <<MaxSrcPoints - 1, 0>>
           \/ w[2] = <<MaxSrcPoints>>}

Init ==
    /\ cloud = EmptyCloud
    /\ op = "none"
    /\ \E w \in Workloads : input = w[1] /\ indices = w[2]
    /\ oob = FALSE
    /\ error = "none"
    /\ crashed = FALSE
    /\ FitIdle

Next ==
    \/ ResetFields
    \/ AppendField
    \/ ResizeCloud
    \/ CopyCloudMetadata
    \/ CopyPoints
    \/ CopyPointsFault

Spec == Init /\ [][Next]_vars

\* Schema construction alone, over every datatype and count.
InitSchema ==
    /\ cloud = EmptyCloud
    /\ op = "none"
    /\ input = EmptyCloud
    /\ indices = <<>>
    /\ oob = FALSE
    /\ error = "none"
    /\ crashed = FALSE
    /\ FitIdle

NextSchema ==
    \/ ResetFields
    \/ AppendAnyField

SpecSchema == InitSchema /\ [][NextSchema]_vars

\* A cloud that already holds a schema and non-zero data, as a reused output.
BusyCloud ==
    LET c == resize_cloud(append_field("x", "int16", 1, reset_fields(EmptyCloud)), 1, MaxSrcPoints)
    IN  [c EXCEPT !.data = [j \in 1..Len(c.data) |-> ByteMod - j]]

\* copy_points alone, over every source cloud and index container, into a
\* fresh output and into a reused one.
InitCopy ==
    /\ cloud \in {EmptyCloud, BusyCloud}
    /\ op = "none"
    /\ input \in SourceClouds
    /\ indices \in IndexSeqs(input)
    /\ oob = FALSE
    /\ error = "none"
    /\ crashed = FALSE
    /\ FitIdle

NextCopy ==
    \/ CopyPoints
    \/ CopyPointsFault

SpecCopy == InitCopy /\ [][NextCopy]_vars

(***************************************************************************)
(* Claims about the buffer helpers.                                        *)
(***************************************************************************)
RECURSIVE FieldBytes(_, _)
\* Sum of count * element size over the first k fields.
FieldBytes(fields, k) ==
    IF k = 0 THEN 0
    ELSE FieldBytes(fields, k - 1) + fields[k].count * ElementSize(fields[k].datatype)

\* C1: after reset_fields and any sequence of append_field calls, point_step
\* is the sum of count * element size over the appended fields and every
\* field's offset is that sum over the fields appended before it (0 for the
\* first field).
C1_SchemaPacked ==
    /\ cloud.point_step = FieldBytes(cloud.fields, Len(cloud.fields))
    /\ \A k \in 1..Len(cloud.fields) :
          cloud.fields[k].offset = FieldBytes(cloud.fields, k - 1)

\* C1 witness: two fields of different element sizes appended, the second at
\* a non-zero offset.
C1_Witness ==
    /\ op = "append_field"
    /\ Len(cloud.fields) = 2
    /\ ElementSize(cloud.fields[1].datatype) # ElementSize(cloud.fields[2].datatype)
    /\ cloud.fields[1].count = 2
    /\ cloud.fields[2].offset > 0
    /\ cloud.point_step > cloud.fields[2].offset

AllInRange == \A i \in 1..Len(indices) : indices[i] < num_points(input)

\* C2: with every index below the source's point count, copy_points leaves
\* an output of height 1 and width Len(indices) with the source's fields and
\* point_step, whose record k holds the bytes of source record indices[k];
\* with no index the output has no point and no data byte.
C2_CopyPointsSelects ==
    (op = "copy_points" /\ AllInRange) =>
        /\ cloud.height = 1
        /\ cloud.width = Len(indices)
        /\ cloud.fields = input.fields
        /\ cloud.point_step = input.point_step
        /\ Len(cloud.data) = Len(indices) * input.point_step
        /\ \A k \in 1..Len(indices) : \A j \in 1..input.point_step :
              cloud.data[(k - 1) * input.point_step + j]
                 = input.data[indices[k] * input.point_step + j]

\* C2 witness: two records of two bytes each copied in the reverse of the
\* source's order from a source whose bytes all differ, into a reused output.
C2_Witness ==
    /\ op = "copy_points"
    /\ AllInRange
    /\ input.point_step = 2
    /\ indices = <<1, 0>>
    /\ input.data[1] # input.data[3]
    /\ cloud.data[1] = input.data[3]

\* C3 as claimed: an index at or beyond the source's point count makes
\* copy_points fail with an out-of-range error, and no byte outside the
\* source data is read.
C3_OutOfRangeRejected ==
    (op = "copy_points" /\ ~AllInRange) =>
        (error = "IndexOutOfRangeError" /\ ~oob)

\* C4 as claimed: after resize_cloud, row_step = width * point_step and each
\* of the height * row_step data bytes is zero (stated for the states in
\* which the last copy read nothing outside its source).
C4_ResizeZeroFills ==
    (op = "resize_cloud" /\ ~oob) =>
        /\ cloud.row_step = cloud.width * cloud.point_step
        /\ Len(cloud.data) = cloud.height * cloud.row_step
        /\ \A i \in 1..Len(cloud.data) : cloud.data[i] = 0

\* C5 as claimed: row_step >= width * point_step in every state reachable
\* through the helpers.
C5_RowStepCoversWidth == cloud.row_step >= cloud.width * cloud.point_step

\* C5 amended: row_step >= width * point_step holds in the empty buffer and
\* right after reset_fields, resize_cloud and copy_points; append_field and
\* copy_cloud_metadata change point_step and leave row_step as it was.
C5_RowStepAfterSizing ==
    op \in {"none", "reset_fields", "resize_cloud", "copy_points"} =>
        cloud.row_step >= cloud.width * cloud.point_step

\* C5 witness: a cloud with a two-byte point sized to hold points.
C5_Witness ==
    /\ op = "resize_cloud"
    /\ cloud.point_step = 2
    /\ cloud.width = 2
    /\ cloud.height > 0
    /\ cloud.row_step = 4

(***************************************************************************)
(* Part 2: SphericalProjection::fit_fast and ::fit_robust.                 *)
(*                                                                         *)
(* A float (Value) is a pair <<n, d>>: the rational n/d in lowest terms    *)
(* with d > 0, or NaN = <<0, 0>>, +inf = <<1, 0>>, -inf = <<-1, 0>>.       *)
(* Rounding is not modelled: the arithmetic is exact.                      *)
(***************************************************************************)
\* a cloud passed to the fits holds at most this many points (SpecFit).
MaxFitPoints == 4
\* an all-valid regular cloud of at least two rows and two columns holds at
\* most this many points (SpecRegular).
MaxRegPoints == 6

\* std::numeric_limits<Index>::max()
INVALID_INDEX == 2147483647

\* az_models.size() >= 25 && el_models.size() >= 25
ModelCap == 25

Abs(x) == IF x < 0 THEN -x ELSE x

Sign(x) == IF x < 0 THEN -1 ELSE IF x > 0 THEN 1 ELSE 0

RECURSIVE GCD(_, _)
GCD(a, b) == IF b = 0 THEN a ELSE GCD(b, a % b)

\* n/d (d # 0) in lowest terms with a positive denominator.
Rat(n, d) ==
    LET g == GCD(Abs(n), Abs(d))
    IN  <<(Sign(d) * n) \div g, Abs(d) \div g>>

NaN == <<0, 0>>

IsNaN(v) == v = NaN

IsInf(v) == v[2] = 0 /\ v[1] # 0

\* float(k) for an integer k
FromInt(k) == <<k, 1>>

\* a - b
FSub(a, b) ==
    IF IsNaN(a) \/ IsNaN(b) THEN NaN
    ELSE IF IsInf(a) THEN (IF a = b THEN NaN ELSE a)
    ELSE IF IsInf(b) THEN <<-b[1], 0>>
    ELSE Rat(a[1] * b[2] - b[1] * a[2], a[2] * b[2])

\* k * v for an integer k
FMulInt(k, v) ==
    IF IsNaN(v) THEN NaN
    ELSE IF IsInf(v) THEN (IF k = 0 THEN NaN ELSE <<Sign(k) * v[1], 0>>)
    ELSE Rat(k * v[1], v[2])

\* v / k for an integer k: x/0 is an infinity, 0/0 is NaN
FDivInt(v, k) ==
    IF IsNaN(v) THEN NaN
    ELSE IF IsInf(v) THEN (IF k < 0 THEN <<-v[1], 0>> ELSE v)
    ELSE IF k = 0 THEN (IF v[1] = 0 THEN NaN ELSE <<Sign(v[1]), 0>>)
    ELSE Rat(v[1], v[2] * k)

\* a < b (false when either is NaN)
FLess(a, b) ==
    IF IsNaN(a) \/ IsNaN(b) THEN FALSE
    ELSE IF IsInf(a) THEN a[1] = -1 /\ b # a
    ELSE IF IsInf(b) THEN b[1] = 1
    ELSE a[1] * b[2] < b[1] * a[2]

(***************************************************************************)
(* The cloud as the fits read it through the "x" iterator: height, width   *)
(* and, per point in storage order, whether x, y and z are all finite and  *)
(* the point's azimuth and elevation (integers, in some angular unit).     *)
(* truth = <<a0, sa, e0, se>> records the regular grid the producer meant: *)
(* the fits never read it.                                                 *)
(***************************************************************************)
\* A plausible slip: the isfinite test left out.
IsValid_unchecked(p) == TRUE

\* std::isfinite(x[0]) && std::isfinite(x[1]) && std::isfinite(x[2])
IsValid(p) == p.finite

\* azimuth(x, y) of geom.h
azimuth(p) == FromInt(p.az)

\* elevation(x, y, z) of geom.h
elevation(p) == FromInt(p.el)

\* Point i (from 0) of the cloud: x_begin + i.
At(c, i) == c.pts[i + 1]

\* The model a failed fit leaves: the early return precedes every assignment.
\* A plausible slip: the extent taken over before the early return.
fit_failed_takes_extent(c, m) == [m EXCEPT !.height = c.height, !.width = c.width]

fit_failed(c, m) == m

\* fit_fast: the four tracked indices before the scan.
fast_init ==
    [i_r0 |-> INVALID_INDEX, i_r1 |-> INVALID_INDEX,
     i_c0 |-> INVALID_INDEX, i_c1 |-> INVALID_INDEX, i |-> 0]

\* fit_fast: the four updates of the loop body for the valid point i.
fast_visit(c, i, st) ==
    LET w == c.width
    IN  [st EXCEPT
           !.i_r0 = IF @ = INVALID_INDEX \/ i \div w < @ \div w THEN i ELSE @,
           !.i_r1 = IF @ = INVALID_INDEX \/ i \div w > @ \div w THEN i ELSE @,
           !.i_c0 = IF @ = INVALID_INDEX \/ i % w < @ % w THEN i ELSE @,
           !.i_c1 = IF @ = INVALID_INDEX \/ i % w > @ % w THEN i ELSE @]

RECURSIVE fast_scan_no_break(_, _, _)
\* A plausible slip: the loop without its early exit.
fast_scan_no_break(c, i, st) ==
    IF i >= c.height * c.width THEN [st EXCEPT !.i = i]
    ELSE IF ~IsValid(At(c, i)) THEN fast_scan_no_break(c, i + 1, st)
    ELSE fast_scan_no_break(c, i + 1, fast_visit(c, i, st))

RECURSIVE fast_scan(_, _, _)
\* fit_fast: the loop from point i on; .i of the result is the index at
\* which the loop was left (the point of the break, or n_points).
fast_scan(c, i, st) ==
    IF i >= c.height * c.width THEN [st EXCEPT !.i = i]
    ELSE IF ~IsValid(At(c, i)) THEN fast_scan(c, i + 1, st)
    ELSE LET s2 == fast_visit(c, i, st)
         IN  IF s2.i_r0 < s2.i_r1 /\ s2.i_c0 < s2.i_c1
             THEN [s2 EXCEPT !.i = i]
             ELSE fast_scan(c, i + 1, s2)

\* fit_fast(cloud) on the model m: the return value, the model afterwards
\* and the locals at return.
fit_fast(c, m) ==
    LET s == fast_scan(c, 0, fast_init)
    IN  IF s.i_r0 = INVALID_INDEX
        THEN [ret |-> FALSE, model |-> fit_failed(c, m),
              fit |-> [op |-> "fit_fast", ret |-> FALSE,
                       i_r0 |-> s.i_r0, i_r1 |-> s.i_r1, i_c0 |-> s.i_c0,
                       i_c1 |-> s.i_c1, i |-> s.i,
                       n_az |-> 0, n_el |-> 0, bad_az |-> 0, bad_el |-> 0,
                       nz_az |-> FALSE, nz_el |-> FALSE]]
        ELSE
        LET width_      == c.width
            elevation_0 == elevation(At(c, s.i_r0))
            elevation_1 == elevation(At(c, s.i_r1))
            r0          == s.i_r0 \div width_
            r1          == s.i_r1 \div width_
            el_step     == FDivInt(FSub(elevation_1, elevation_0), r1 - r0)
            el_start    == FSub(elevation_0, FMulInt(r0, el_step))
            azimuth_0   == azimuth(At(c, s.i_c0))
            azimuth_1   == azimuth(At(c, s.i_c1))
            c0          == s.i_c0 % width_
            c1          == s.i_c1 % width_
            az_step     == FDivInt(FSub(azimuth_1, azimuth_0), c1 - c0)
            az_start    == FSub(azimuth_0, FMulInt(c0, az_step))
        IN  [ret |-> TRUE,
             model |-> [azimuth_start |-> az_start, azimuth_step |-> az_step,
                        elevation_start |-> el_start, elevation_step |-> el_step,
                        height |-> c.height, width |-> c.width],
             fit |-> [op |-> "fit_fast", ret |-> TRUE,
                      i_r0 |-> s.i_r0, i_r1 |-> s.i_r1, i_c0 |-> s.i_c0,
                      i_c1 |-> s.i_c1, i |-> s.i,
                      n_az |-> 0, n_el |-> 0, bad_az |-> 0, bad_el |-> 0,
                      nz_az |-> (c1 - c0 # 0), nz_el |-> (r1 - r0 # 0)]]

RECURSIVE valid_from(_, _)
\* fit_robust: the indices of the valid points from point i on, ascending.
valid_from(c, i) ==
    IF i >= c.height * c.width THEN <<>>
    ELSE IF ~IsValid(At(c, i)) THEN valid_from(c, i + 1)
    ELSE <<i>> \o valid_from(c, i + 1)

\* std::shuffle: every order of the valid indices.
Shuffles(valid) ==
    IF Len(valid) = 0 THEN {<<>>}
    ELSE {[k \in 1..Len(valid) |-> valid[p[k]]] : p \in Permutations(1..Len(valid))}

\* Whether point i lies where the grid the producer meant puts it.
OnGrid(c, i) ==
    /\ At(c, i).az = c.truth[1] + (i % c.width) * c.truth[2]
    /\ At(c, i).el = c.truth[3] + (i \div c.width) * c.truth[4]

\* A candidate {start, step} (first, second) of fit_robust; nz tells whether
\* the index difference its step was divided by is non-zero and bad whether
\* one of its two points lies off the grid (both kept for the claims, read by
\* no fit).
\* A plausible slip: the azimuth difference not divided by the column difference.
az_model_undivided(c, i0, i1) ==
    LET c0      == i0 % c.width
        c1      == i1 % c.width
        az0     == azimuth(At(c, i0))
        az1     == azimuth(At(c, i1))
        az_step == FSub(az1, az0)
    IN  [first |-> FSub(az0, FMulInt(c0, az_step)), second |-> az_step,
         nz |-> (c1 - c0 # 0), bad |-> ~(OnGrid(c, i0) /\ OnGrid(c, i1))]

\* fit_robust: the azimuth candidate of the points i0 and i1 (c0 # c1).
az_model(c, i0, i1) ==
    LET c0      == i0 % c.width
        c1      == i1 % c.width
        az0     == azimuth(At(c, i0))
        az1     == azimuth(At(c, i1))
        az_step == FDivInt(FSub(az1, az0), c1 - c0)
    IN  [first |-> FSub(az0, FMulInt(c0, az_step)), second |-> az_step,
         nz |-> (c1 - c0 # 0), bad |-> ~(OnGrid(c, i0) /\ OnGrid(c, i1))]

\* fit_robust: the elevation candidate of the points i0 and i1 (r0 # r1).
el_model(c, i0, i1) ==
    LET r0      == i0 \div c.width
        r1      == i1 \div c.width
        el0     == elevation(At(c, i0))
        el1     == elevation(At(c, i1))
        el_step == FDivInt(FSub(el1, el0), r1 - r0)
    IN  [first |-> FSub(el0, FMulInt(r0, el_step)), second |-> el_step,
         nz |-> (r1 - r0 # 0), bad |-> ~(OnGrid(c, i0) /\ OnGrid(c, i1))]

RECURSIVE robust_collect_either(_, _, _, _, _)
\* A plausible slip: the pair loop left once either list holds ModelCap
\* candidates (|| for &&).
robust_collect_either(c, valid, i, az_models, el_models) ==
    IF ~(i + 1 < Len(valid)) THEN [az |-> az_models, el |-> el_models, i |-> i]
    ELSE
    LET i0  == valid[i + 1]
        i1  == valid[i + 2]
        az2 == IF i0 % c.width # i1 % c.width
               THEN Append(az_models, az_model(c, i0, i1)) ELSE az_models
        el2 == IF i0 \div c.width # i1 \div c.width
               THEN Append(el_models, el_model(c, i0, i1)) ELSE el_models
    IN  IF Len(az2) >= ModelCap \/ Len(el2) >= ModelCap
        THEN [az |-> az2, el |-> el2, i |-> i]
        ELSE robust_collect_either(c, valid, i + 1, az2, el2)

RECURSIVE robust_collect(_, _, _, _, _)
\* fit_robust: the pair loop from i on over the shuffled valid indices;
\* the candidate lists at the end of the loop.
robust_collect(c, valid, i, az_models, el_models) ==
    IF ~(i + 1 < Len(valid)) THEN [az |-> az_models, el |-> el_models, i |-> i]
    ELSE
    LET i0  == valid[i + 1]
        i1  == valid[i + 2]
        az2 == IF i0 % c.width # i1 % c.width
               THEN Append(az_models, az_model(c, i0, i1)) ELSE az_models
        el2 == IF i0 \div c.width # i1 \div c.width
               THEN Append(el_models, el_model(c, i0, i1)) ELSE el_models
    IN  IF Len(az2) >= ModelCap /\ Len(el2) >= ModelCap
        THEN [az |-> az2, el |-> el2, i |-> i]
        ELSE robust_collect(c, valid, i + 1, az2, el2)

\* A plausible slip: the first of the sorted candidates taken, not the middle one.
median_pos_first(n) == 0

\* The position (from 0) read after the sort: models.size() / 2.
median_pos(n) == n \div 2

\* The candidates std::sort (by step) can leave at the median position: the
\* order of candidates with equal steps is unspecified.
Medians(models) ==
    {models[j] : j \in
      {j \in 1..Len(models) :
        LET less == Cardinality({k \in 1..Len(models) :
                        FLess(models[k].second, models[j].second)})
            same == Cardinality({k \in 1..Len(models) :
                        /\ ~FLess(models[k].second, models[j].second)
                        /\ ~FLess(models[j].second, models[k].second)})
        IN  less <= median_pos(Len(models)) /\ median_pos(Len(models)) < less + same}}

NumBad(models) == Cardinality({k \in 1..Len(models) : models[k].bad})

\* fit_robust(cloud) on the model m after the pair loop has collected col,
\* with the candidates az and el at the median positions once sorted.
robust_finish(c, m, col, az, el) ==
    LET loc == [op |-> "fit_robust", ret |-> FALSE,
                i_r0 |-> 0, i_r1 |-> 0, i_c0 |-> 0, i_c1 |-> 0, i |-> col.i,
                n_az |-> Len(col.az), n_el |-> Len(col.el),
                bad_az |-> NumBad(col.az), bad_el |-> NumBad(col.el),
                nz_az |-> FALSE, nz_el |-> FALSE]
    IN  IF Len(col.az) = 0 \/ Len(col.el) = 0
        THEN [ret |-> FALSE, model |-> fit_failed(c, m), fit |-> loc]
        ELSE [ret |-> TRUE,
              model |-> [azimuth_start |-> az.first,
                         azimuth_step |-> az.second,
                         elevation_start |-> el.first,
                         elevation_step |-> el.second,
                         height |-> c.height, width |-> c.width],
              fit |-> [loc EXCEPT !.ret = TRUE,
                                  !.nz_az = az.nz,
                                  !.nz_el = el.nz]]

\* fit_robust(cloud) on the model m for the shuffled order `valid`: every
\* result the two sorts allow.
fit_robust(c, m, valid) ==
    LET col == robust_collect(c, valid, 0, <<>>, <<>>)
    IN  IF Len(col.az) = 0 \/ Len(col.el) = 0
        THEN {robust_finish(c, m, col, <<>>, <<>>)}
        ELSE {robust_finish(c, m, col, az, el) :
                az \in Medians(col.az), el \in Medians(col.el)}

(***************************************************************************)
(* Clouds given to the fits: a regular grid azimuth a0 + c*sa, elevation   *)
(* e0 + r*se, in which each point is on the grid ("ok"), valid but off it  *)
(* by a fixed offset ("bad"), or invalid ("nan").                          *)
(***************************************************************************)
GridParams == {<<-4, 2, 1, 3>>, <<5, -3, -2, -1>>, <<0, 1, 3, -2>>}

BadOffsets == {<<3, -5>>}

Kinds == {"ok", "bad", "nan"}

GridPoint(truth, off, kind, r, c) ==
    IF kind = "nan" THEN [finite |-> FALSE, az |-> 0, el |-> 0]
    ELSE IF kind = "bad"
    THEN [finite |-> TRUE, az |-> truth[1] + c * truth[2] + off[1],
                           el |-> truth[3] + r * truth[4] + off[2]]
    ELSE [finite |-> TRUE, az |-> truth[1] + c * truth[2],
                           el |-> truth[3] + r * truth[4]]

GridCloud(h, w, truth, off, kinds) ==
    [height |-> h, width |-> w, truth |-> truth,
     pts |-> [k \in 1..(h * w) |->
                GridPoint(truth, off, kinds[k], (k - 1) \div w, (k - 1) % w)]]

\* Extents height x width of at most maxpoints points, each at least lo
\* (the fits assert height >= 1 and width >= 1).
Extents(maxpoints, lo) ==
    {e \in (lo..maxpoints) \X (lo..maxpoints) : e[1] * e[2] <= maxpoints}

FitClouds ==
    UNION { { GridCloud(e[1], e[2], t, off, kinds) :
                t \in GridParams, off \in BadOffsets,
                kinds \in [1..(e[1] * e[2]) -> Kinds] }
            : e \in Extents(MaxFitPoints, 1) }

RegularClouds ==
    { GridCloud(e[1], e[2], t, <<0, 0>>, [k \in 1..(e[1] * e[2]) |-> "ok"]) :
        e \in Extents(MaxRegPoints, 2), t \in GridParams }

\* The model before a fit: members never set (here: arbitrary values, a NaN
\* among them) or the parameters of an earlier calibration.
PriorModels ==
    {[azimuth_start |-> <<7, 1>>, azimuth_step |-> <<-3, 2>>,
      elevation_start |-> NaN, elevation_step |-> <<0, 1>>,
      height |-> 9, width |-> 5],
     [azimuth_start |-> <<-4, 1>>, azimuth_step |-> <<2, 1>>,
      elevation_start |-> <<1, 1>>, elevation_step |-> <<3, 1>>,
      height |-> 2, width |-> 2]}

BufferIdle ==
    /\ cloud = EmptyCloud
    /\ op = "none"
    /\ input = EmptyCloud
    /\ indices = <<>>
    /\ oob = FALSE
    /\ error = "none"
    /\ crashed = FALSE

FitFast ==
    /\ LET r == fit_fast(scan, model)
       IN  model' = r.model /\ fit' = r.fit
    /\ UNCHANGED <<cloud, op, input, indices, oob, error, crashed, scan>>

FitRobust ==
    /\ \E valid \in Shuffles(valid_from(scan, 0)) :
         \E r \in fit_robust(scan, model, valid) :
            model' = r.model /\ fit' = r.fit
    /\ UNCHANGED <<cloud, op, input, indices, oob, error, crashed, scan>>

NextFit ==
    \/ FitFast
    \/ FitRobust

InitFit ==
    /\ BufferIdle
    /\ scan \in FitClouds
    /\ model \in PriorModels
    /\ fit = NoFit

SpecFit == InitFit /\ [][NextFit]_vars

InitRegular ==
    /\ BufferIdle
    /\ scan \in RegularClouds
    /\ model \in PriorModels
    /\ fit = NoFit

SpecRegular == InitRegular /\ [][NextFit]_vars

(***************************************************************************)
(* fit_robust on clouds with more valid points than ModelCap, so that the  *)
(* cap on the candidate lists comes into play. Of the orders std::shuffle  *)
(* can leave, the stride orders are taken: valid[(k*s) % n] for k = 0..n-1 *)
(* and every stride s coprime to n (s = 1 is storage order, s = width + 1  *)
(* walks the diagonals).                                                   *)
(***************************************************************************)
\* a cloud of SpecCap holds more than ModelCap and at most this many points.
MaxCapPoints == 28

StrideShuffles(valid) ==
    LET n == Len(valid)
    IN  IF n = 0 THEN {<<>>}
        ELSE {[k \in 1..n |-> valid[(((k - 1) * s) % n) + 1]] :
                s \in {t \in 1..n : GCD(t, n) = 1}}

CapClouds ==
    { GridCloud(e[1], e[2], t, <<0, 0>>, [k \in 1..(e[1] * e[2]) |-> "ok"]) :
        e \in {x \in Extents(MaxCapPoints, 1) : x[1] * x[2] > ModelCap},
        t \in GridParams }

FitRobustStride ==
    /\ \E valid \in StrideShuffles(valid_from(scan, 0)) :
         \E r \in fit_robust(scan, model, valid) :
            model' = r.model /\ fit' = r.fit
    /\ UNCHANGED <<cloud, op, input, indices, oob, error, crashed, scan>>

NextCap ==
    \/ FitFast
    \/ FitRobustStride

InitCap ==
    /\ BufferIdle
    /\ scan \in CapClouds
    /\ model \in PriorModels
    /\ fit = NoFit

SpecCap == InitCap /\ [][NextCap]_vars

(***************************************************************************)
(* Claims about the fits.                                                  *)
(***************************************************************************)
\* C6: a fit that returns false leaves all six model members as they were
\* before the call.
C6_FailedFitKeepsModel ==
    [][(fit'.op # "none" /\ ~fit'.ret) => model' = model]_vars

\* C6 witness: fit_robust has failed on a cloud with valid points after an
\* earlier fit had calibrated the model on it, and the model is still the
\* calibrated one.
C6_Witness ==
    /\ fit.op = "fit_robust"
    /\ ~fit.ret
    /\ \E k \in 1..Len(scan.pts) : scan.pts[k].finite
    /\ model \notin PriorModels
    /\ model.height = scan.height /\ model.width = scan.width

AllInvalid(c) == \A k \in 1..Len(c.pts) : ~c.pts[k].finite

\* C7: on a cloud of any extent in which every point is invalid, fit_fast
\* and fit_robust return false.
C7_AllInvalidFitsFail ==
    (fit.op # "none" /\ AllInvalid(scan)) => ~fit.ret

\* C7 witness: a fit has run on a cloud of two rows and two columns of
\* invalid points.
C7_Witness ==
    /\ fit.op \in {"fit_fast", "fit_robust"}
    /\ scan.height = 2 /\ scan.width = 2
    /\ AllInvalid(scan)
    /\ ~fit.ret

\* Every point valid and on the grid truth names, in at least two rows and
\* two columns.
Regular(c) ==
    /\ c.height >= 2 /\ c.width >= 2
    /\ \A i \in 0..(c.height * c.width - 1) : At(c, i).finite /\ OnGrid(c, i)

\* C8: on a cloud of at least two rows and two columns whose points are all
\* valid with azimuth a0 + c*sa and elevation e0 + r*se, fit_robust returns
\* true and sets the four parameters to (a0, sa, e0, se), whatever the shuffle.
C8_RobustRecoversGrid ==
    (fit.op = "fit_robust" /\ Regular(scan)) =>
        /\ fit.ret
        /\ model.azimuth_start = FromInt(scan.truth[1])
        /\ model.azimuth_step = FromInt(scan.truth[2])
        /\ model.elevation_start = FromInt(scan.truth[3])
        /\ model.elevation_step = FromInt(scan.truth[4])

\* C8 witness: fit_robust has calibrated a model that held other parameters
\* on a regular cloud of two rows and three columns with negative steps.
C8_Witness ==
    /\ fit.op = "fit_robust"
    /\ fit.ret
    /\ Regular(scan)
    /\ scan.height = 2 /\ scan.width = 3
    /\ scan.truth = <<5, -3, -2, -1>>
    /\ model.azimuth_step = <<-3, 1>>
    /\ model.elevation_start = <<-2, 1>>

ValidPoints(c) == {i \in 0..(c.height * c.width - 1) : At(c, i).finite}

BadPoints(c) == {i \in ValidPoints(c) : ~OnGrid(c, i)}

\* C9 as claimed: with fewer than half of the valid points off the grid,
\* the steps fit_robust chooses are the true steps, whatever the shuffle.
C9_MinorityOutliersHarmless ==
    (/\ fit.op = "fit_robust"
     /\ fit.ret
     /\ 2 * Cardinality(BadPoints(scan)) < Cardinality(ValidPoints(scan))) =>
        /\ model.azimuth_step = FromInt(scan.truth[2])
        /\ model.elevation_step = FromInt(scan.truth[4])

\* C9 amended: the step fit_robust chooses for an axis is the true step
\* whenever fewer than half of the candidates it collected for that axis
\* come from a pair with a point off the grid.
C9_MinorityCandidatesHarmless ==
    (fit.op = "fit_robust" /\ fit.ret) =>
        /\ 2 * fit.bad_az < fit.n_az => model.azimuth_step = FromInt(scan.truth[2])
        /\ 2 * fit.bad_el < fit.n_el => model.elevation_step = FromInt(scan.truth[4])

\* C9 witness: one of three azimuth candidates came from a pair with a point
\* off the grid, and the chosen azimuth step is the true one.
C9_Witness ==
    /\ fit.op = "fit_robust"
    /\ fit.ret
    /\ fit.n_az = 3 /\ fit.bad_az = 1
    /\ model.azimuth_step = FromInt(scan.truth[2])

\* C10 as claimed: when a fit returns true, each step was divided by a
\* non-zero index difference (samples in different rows for elevation_step,
\* in different columns for azimuth_step).
C10_StepsDividedByNonZero ==
    (fit.op # "none" /\ fit.ret) => (fit.nz_az /\ fit.nz_el)

\* The valid points among the points 0..k.
ValidUpTo(c, k) == {i \in 0..k : At(c, i).finite}

\* Least element of a non-empty set of integers.
Least(S) == CHOOSE i \in S : \A j \in S : i <= j

\* The first point, among the valid points 0..k, of the lowest row and of
\* the highest row, and of the lowest column and of the highest column.
MinRowSample(c, k) ==
    Least({i \in ValidUpTo(c, k) :
             \A j \in ValidUpTo(c, k) : i \div c.width <= j \div c.width})

MaxRowSample(c, k) ==
    Least({i \in ValidUpTo(c, k) :
             \A j \in ValidUpTo(c, k) : i \div c.width >= j \div c.width})

MinColSample(c, k) ==
    Least({i \in ValidUpTo(c, k) :
             \A j \in ValidUpTo(c, k) : i % c.width <= j % c.width})

MaxColSample(c, k) ==
    Least({i \in ValidUpTo(c, k) :
             \A j \in ValidUpTo(c, k) : i % c.width >= j % c.width})

\* Point k is valid and, once it is taken in, the row samples lie in
\* different rows and the column samples in different columns.
ExtremaDiffer(c, k) ==
    /\ At(c, k).finite
    /\ MinRowSample(c, k) \div c.width # MaxRowSample(c, k) \div c.width
    /\ MinColSample(c, k) % c.width # MaxColSample(c, k) % c.width

\* The same, with the lowest-column sample stored before the
\* highest-column sample.
ExtremaInOrder(c, k) ==
    /\ ExtremaDiffer(c, k)
    /\ MinColSample(c, k) < MaxColSample(c, k)

\* C11 as claimed: the scan of fit_fast is left at the first valid point after
\* which the row samples lie in different rows and the column samples in
\* different columns, and looks at no point beyond it.
C11_ScanStopsWhenExtremaDiffer ==
    fit.op = "fit_fast" =>
        \A k \in 0..(scan.height * scan.width - 1) :
            ExtremaDiffer(scan, k) => fit.i <= k

\* C11 amended: the scan of fit_fast is left at the first valid point after
\* which the row samples lie in different rows, the column samples in
\* different columns, and the lowest-column sample is stored before the
\* highest-column sample; with no such point it looks at every point.
C11_ScanStopsWhenExtremaInOrder ==
    fit.op = "fit_fast" =>
        LET n    == scan.height * scan.width
            stop == {k \in 0..(n - 1) : ExtremaInOrder(scan, k)}
        IN  /\ stop # {} => fit.i = Least(stop)
            /\ stop = {} => fit.i = n
            /\ fit.i < n =>
                  /\ fit.i_r0 = MinRowSample(scan, fit.i)
                  /\ fit.i_r1 = MaxRowSample(scan, fit.i)
                  /\ fit.i_c0 = MinColSample(scan, fit.i)
                  /\ fit.i_c1 = MaxColSample(scan, fit.i)

\* C11 witness: fit_fast has left its scan with a point still unread.
C11_Witness ==
    /\ fit.op = "fit_fast"
    /\ fit.ret
    /\ fit.i + 1 < scan.height * scan.width
    /\ ExtremaInOrder(scan, fit.i)

\* C12 as claimed: neither candidate list of fit_robust ever holds more than
\* ModelCap (25) entries (the lists only grow, so their lengths at the end
\* of the pair loop are their largest).
C12_CandidatesCapped ==
    fit.op = "fit_robust" => (fit.n_az <= ModelCap /\ fit.n_el <= ModelCap)

\* C12 amended: the pair loop of fit_robust is left after the first pair at
\* which both lists hold at least ModelCap candidates, so at most one list
\* exceeds ModelCap; while one list holds fewer, every consecutive pair of
\* the shuffled valid points is taken, and a list holds at most one
\* candidate per pair.
C12_CollectionStopsWhenBothCapped ==
    fit.op = "fit_robust" =>
        LET pairs == IF ValidPoints(scan) = {} THEN 0
                     ELSE Cardinality(ValidPoints(scan)) - 1
        IN  /\ fit.n_az <= ModelCap \/ fit.n_el <= ModelCap
            /\ (fit.n_az < ModelCap \/ fit.n_el < ModelCap) => fit.i = pairs
            /\ fit.n_az <= pairs /\ fit.n_el <= pairs

\* C12 witness: fit_robust has left its pair loop with a pair still untaken,
\* one list at ModelCap and the other beyond it.
C12_Witness ==
    /\ fit.op = "fit_robust"
    /\ fit.ret
    /\ fit.n_az > ModelCap
    /\ fit.n_el = ModelCap
    /\ fit.i + 2 < Cardinality(ValidPoints(scan))

====
